---- MODULE Spec2Model ----
\* Model of the NARS Persona classifier, src/algorithm.py
\* (calculate_consultation_result), as a step machine: one action per
\* statement group of the function, the locals of the call as variables.
\*
\* Python values are records [type, s]: type is the Python type name and s
\* the characters of a str (a sequence of one-character strings), <<>> for
\* any other type.  The answers argument is [type, items]: items is the
\* dict's entries in iteration (insertion) order, <<>> for a non-dict.
EXTENDS Integers, Sequences, FiniteSets, TLC

VARIABLES answers, pc, i, scores, binary, result, raised, ncalls, seen,
          suspended, handler, db, response, created,
          request, payload, users, now, ntokens, accepted, feedback

\* What lies outside the running call: the frame of a call that is switched
\* out, the position of the request handler, the stored consultations, the
\* last HTTP response, and (history) what each stored consultation was
\* created from.
\* The rest of the application: the request being answered and the data
\* of its response, the users table, the clock, the number of remember
\* tokens generated so far, (history) the remember tokens /login/token has
\* accepted, and the feedback table.
side == <<request, payload, users, now, ntokens, accepted, feedback>>

env == <<suspended, handler, db, response, created, side>>

vars == <<answers, pc, i, scores, binary, result, raised, ncalls, seen, env>>

\* ---------------------------------------------------------------- bounds
\* Largest number of entries of the freely enumerated answer dicts.
MaxAnswers == 2
\* Largest number of successive calls in the repeated-call specification.
MaxCalls == 3

\* ------------------------------------------------------- Python values
Str(chars) == [type |-> "str", s |-> chars]
PyInt7 == [type |-> "int", s |-> <<>>]
PyNone == [type |-> "NoneType", s |-> <<>>]

\* str.lower(), character by character.
UpperLetters == <<"A","B","C","D","E","F","G","H","I","J","K","L","M",
                  "N","O","P","Q","R","S","T","U","V","W","X","Y","Z">>

LowerLetters == <<"a","b","c","d","e","f","g","h","i","j","k","l","m",
                  "n","o","p","q","r","s","t","u","v","w","x","y","z">>

LowerChar(c) ==
    IF \E k \in 1..26 : UpperLetters[k] = c
    THEN LowerLetters[CHOOSE k \in 1..26 : UpperLetters[k] = c]
    ELSE c

\* str.lower() that leaves the string as it is
Lower_mut(chars) == chars

Lower(chars) == [k \in 1..Len(chars) |-> LowerChar(chars[k])]

\* q_num[1:] (line 48): everything after the first character.
SliceFrom1(chars) == IF Len(chars) = 0 THEN <<>> ELSE Tail(chars)

Digits == <<"0", "1", "2", "3", "4", "5", "6", "7", "8", "9">>

IsDigit(c) == \E d \in 1..10 : Digits[d] = c

DigitVal(c) == (CHOOSE d \in 1..10 : Digits[d] = c) - 1

\* str.strip() of the blanks int() ignores around a literal.
RECURSIVE LStrip(_)
LStrip(chars) ==
    IF Len(chars) > 0 /\ Head(chars) = " " THEN LStrip(Tail(chars)) ELSE chars

RECURSIVE RStrip(_)
RStrip(chars) ==
    IF Len(chars) > 0 /\ chars[Len(chars)] = " "
    THEN RStrip(SubSeq(chars, 1, Len(chars) - 1)) ELSE chars

\* The digit groups of an int literal: digits, single underscores only
\* between digits.
IsIntBody(chars) ==
    /\ Len(chars) > 0
    /\ IsDigit(chars[1])
    /\ IsDigit(chars[Len(chars)])
    /\ \A k \in 1..Len(chars) : IsDigit(chars[k]) \/ chars[k] = "_"
    /\ \A k \in 1..(Len(chars) - 1) : ~(chars[k] = "_" /\ chars[k + 1] = "_")

RECURSIVE DecimalValue(_, _)
DecimalValue(chars, acc) ==
    IF Len(chars) = 0 THEN acc
    ELSE IF Head(chars) = "_" THEN DecimalValue(Tail(chars), acc)
    ELSE DecimalValue(Tail(chars), 10 * acc + DigitVal(Head(chars)))

\* int(str) (line 48): blanks stripped, optional sign, decimal digits;
\* ok = FALSE is the ValueError "invalid literal for int()".
int(chars) ==
    LET t == RStrip(LStrip(chars))
        signed == Len(t) > 0 /\ (t[1] = "-" \/ t[1] = "+")
        body == IF signed THEN Tail(t) ELSE t
        sign == IF signed /\ t[1] = "-" THEN -1 ELSE 1
    IN  IF IsIntBody(body)
        THEN [ok |-> TRUE, val |-> sign * DecimalValue(body, 0)]
        ELSE [ok |-> FALSE, val |-> 0]

\* line 81 joining the bits last to first
RECURSIVE join_mut(_)
join_mut(list) ==
    IF Len(list) = 0 THEN <<>> ELSE join_mut(Tail(list)) \o Head(list)

\* ''.join(list of str) (line 81)
RECURSIVE join(_)
join(list) == IF Len(list) = 0 THEN <<>> ELSE Head(list) \o join(Tail(list))

\* -------------------------------------------------- the scale symbols
strongly_agree == <<"s","t","r","o","n","g","l","y","_","a","g","r","e","e">>
agree == <<"a","g","r","e","e">>
neutral == <<"n","e","u","t","r","a","l">>
disagree == <<"d","i","s","a","g","r","e","e">>
strongly_disagree ==
    <<"s","t","r","o","n","g","l","y","_","d","i","s","a","g","r","e","e">>

\* line 11
valid_responses == {strongly_agree, agree, neutral, disagree, strongly_disagree}

\* lines 21-27
answer_values_mut ==
    [sym \in valid_responses |->
        CASE sym = strongly_agree -> 2 [] sym = agree -> 1
          [] sym = neutral -> 1 [] sym = disagree -> -1
          [] sym = strongly_disagree -> -2]

answer_values ==
    [sym \in valid_responses |->
        CASE sym = strongly_agree -> 2 [] sym = agree -> 1
          [] sym = neutral -> 0 [] sym = disagree -> -1
          [] sym = strongly_disagree -> -2]

\* lines 30-41, a coefficient of row Q7 changed
multiplier_matrix_mut ==
    << <<1, 0, 0, 1, -1>>,
       <<-1, 1, 0, -1, 1>>,
       <<1, 0, 0, 1, -1>>,
       <<0, 1, 0, 0, 0>>,
       <<0, 1, 0, 0, 0>>,
       <<0, 0, 1, 0, 0>>,
       <<-1, 0, 0, -1, 1>>,
       <<1, 0, 0, 1, -1>>,
       <<-1, 1, 0, -1, 1>>,
       <<1, 0, 0, 1, -1>> >>

\* lines 30-41 (questions x traits)
multiplier_matrix ==
    << <<1, 0, 0, 1, -1>>,
       <<-1, 1, 0, -1, 1>>,
       <<1, 0, 0, 1, -1>>,
       <<0, 1, 0, 0, 0>>,
       <<0, 1, 0, 0, 0>>,
       <<0, 0, 1, 0, 0>>,
       <<-1, 0, 1, -1, 1>>,
       <<1, 0, 0, 1, -1>>,
       <<-1, 1, 0, -1, 1>>,
       <<1, 0, 0, 1, -1>> >>

\* list[index] of Python: a negative index counts from the end, anything
\* outside -len..len-1 is an IndexError (ok = FALSE).
ListIndex(list, index) ==
    IF index >= 0 /\ index < Len(list)
    THEN [ok |-> TRUE, val |-> list[index + 1]]
    ELSE IF index < 0 /\ index >= -Len(list)
    THEN [ok |-> TRUE, val |-> list[index + Len(list) + 1]]
    ELSE [ok |-> FALSE, val |-> <<>>]

\* lines 72-79, two names exchanged
persona_map_mut ==
    [code \in { <<"0","0","1","0","1">>, <<"0","1","1","0","1">>,
                <<"1","0","0","1","0">>, <<"1","0","1","1","0">>,
                <<"1","1","0","1","0">>, <<"1","1","1","1","0">> } |->
        CASE code = <<"0","0","1","0","1">> -> "Refined Style"
          [] code = <<"0","1","1","0","1">> -> "Modern Elegance"
          [] code = <<"1","0","0","1","0">> -> "Bold Spirit"
          [] code = <<"1","0","1","1","0">> -> "Radiant Simplicity"
          [] code = <<"1","1","0","1","0">> -> "Creative Expression"
          [] code = <<"1","1","1","1","0">> -> "Authentic Beauty"]

\* lines 72-79
persona_map ==
    [code \in { <<"0","0","1","0","1">>, <<"0","1","1","0","1">>,
                <<"1","0","0","1","0">>, <<"1","0","1","1","0">>,
                <<"1","1","0","1","0">>, <<"1","1","1","1","0">> } |->
        CASE code = <<"0","0","1","0","1">> -> "Refined Style"
          [] code = <<"0","1","1","0","1">> -> "Modern Elegance"
          [] code = <<"1","0","0","1","0">> -> "Bold Spirit"
          [] code = <<"1","0","1","1","0">> -> "Radiant Simplicity"
          [] code = <<"1","1","0","1","0">> -> "Authentic Beauty"
          [] code = <<"1","1","1","1","0">> -> "Creative Expression"]

\* dict.get(key, default) (line 84)
DictGet(map, key, default) == IF key \in DOMAIN map THEN map[key] ELSE default

\* ----------------------------------------------------------- exceptions
Exception(cls, msg, key, answer, symbols) ==
    [cls |-> cls, msg |-> msg, key |-> key, answer |-> answer,
     symbols |-> symbols]

NoError == Exception("", "", PyNone, PyNone, {})

\* line 9
NotADictError ==
    Exception("ValueError", "Answers must be a dictionary", PyNone, PyNone, {})

\* line 16, the key left out of the message
NotAStringError_mut(q_num) ==
    Exception("ValueError", "Answer for {q_num} must be a string",
              PyNone, PyNone, {})

\* line 16: f"Answer for {q_num} must be a string"
NotAStringError(q_num) ==
    Exception("ValueError", "Answer for {q_num} must be a string",
              q_num, PyNone, {})

\* line 18: f"Invalid answer '{answer}' for {q_num}. Must be one of:
\* {valid_responses}"
InvalidAnswerError(q_num, answer) ==
    Exception("ValueError",
              "Invalid answer '{answer}' for {q_num}. Must be one of: {valid_responses}",
              q_num, answer, valid_responses)

\* line 48, q_num[1:] of a key that is no str
NotSubscriptableError ==
    Exception("TypeError", "object is not subscriptable", PyNone, PyNone, {})

\* line 48, int() of a string that is no integer literal
InvalidLiteralError ==
    Exception("ValueError", "invalid literal for int() with base 10",
              PyNone, PyNone, {})

\* line 49, answer.lower() of a value that is no str
NoLowerError ==
    Exception("AttributeError", "object has no attribute 'lower'",
              PyNone, PyNone, {})

\* line 49, answer_values[...] of a string that is no scale symbol
KeyError == Exception("KeyError", "answer.lower()", PyNone, PyNone, {})

\* line 52, multiplier_matrix[q_index] outside the list
IndexError ==
    Exception("IndexError", "list index out of range", PyNone, PyNone, {})

NoResult == [archetype |-> "", binary |-> <<>>, scores |-> <<>>]

NoCall == [answers |-> [type |-> "NoneType", items |-> <<>>], pc |-> "idle",
           result |-> NoResult, raised |-> NoError, n |-> 0]

\* The locals of a call that is not running.
NoFrame == [answers |-> [type |-> "NoneType", items |-> <<>>], pc |-> "none",
            i |-> 0, scores |-> <<>>, binary |-> <<>>, result |-> NoResult,
            raised |-> NoError]

\* No request is being handled.
NoHandler == [pc |-> "idle", user |-> 0]

NoResponse == [status |-> 0, error |-> "", message |-> "", key |-> PyNone,
               result |-> NoResult,
               answers |-> [type |-> "NoneType", items |-> <<>>], id |-> 0]

NoFeedback == [id |-> 0, consultation_id |-> 0, user_id |-> 0,
               is_satisfied |-> "", has_purchased |-> "", notes |-> ""]

Request(op, user, id, body) == [op |-> op, user |-> user, id |-> id, body |-> body]

NoBody == [email |-> "", password |-> "", remember_me |-> FALSE,
           remember_token |-> 0, has_fields |-> FALSE, is_satisfied |-> "",
           has_purchased |-> "", notes |-> ""]

NoRequest == Request("", 0, 0, NoBody)

\* The data of a response that carries none.
NoPayload == [access_token |-> 0, remember_token |-> 0, feedback |-> NoFeedback,
              list |-> <<>>]

SideAtRest ==
    /\ request = NoRequest
    /\ payload = NoPayload
    /\ users = <<>>
    /\ now = 0
    /\ ntokens = 0
    /\ accepted = {}
    /\ feedback = <<>>

\* No second call, no request, an empty store.
EnvAtRest ==
    /\ SideAtRest
    /\ suspended = NoFrame
    /\ handler = NoHandler
    /\ db = <<>>
    /\ response = NoResponse
    /\ created = <<>>

\* ------------------------------------------------------------- inputs
Dict(items) == [type |-> "dict", items |-> items]

\* "not_a_map", a list, a scalar
NonMappings == { [type |-> "str", items |-> <<>>],
                 [type |-> "list", items |-> <<>>],
                 [type |-> "int", items |-> <<>>] }

\* The ten canonical identifiers q1..q10, in question order.
QIds == << Str(<<"q","1">>), Str(<<"q","2">>), Str(<<"q","3">>),
           Str(<<"q","4">>), Str(<<"q","5">>), Str(<<"q","6">>),
           Str(<<"q","7">>), Str(<<"q","8">>), Str(<<"q","9">>),
           Str(<<"q","1","0">>) >>

\* Identifiers q<N> with N outside 1..10.
OutOfRangeIds == { Str(<<"q","0">>), Str(<<"q","1","1">>),
                   Str(<<"q","-","1">>), Str(<<"q","-","9">>),
                   Str(<<"q","-","1","0">>), Str(<<"q","2","5">>) }

\* Identifiers that are not of the form q<N>, and a key that is no str.
OddIds == { Str(<<"q","0","1">>), Str(<<"q","x">>), Str(<<"x","1">>),
            Str(<<>>), Str(<<"q">>), Str(<<"q"," ","3">>),
            Str(<<"q","+","2">>), Str(<<"q","1","_","0">>),
            Str(<<"q","_","1">>), PyInt7 }

ScaleValues == { Str(sym) : sym \in valid_responses }

OtherValues == { Str(<<"A","g","r","e","e">>), Str(<<"A","G","R","E","E">>),
                 Str(<<"N","e","u","t","r","a","l">>),
                 Str(<<" ","a","g","r","e","e">>),
                 Str(<<"m","a","y","b","e">>), Str(<<>>), PyInt7, PyNone }

FreeKeys == { QIds[1], QIds[2], QIds[6], QIds[7], QIds[10],
              Str(<<"q","0">>), Str(<<"q","1","1">>), Str(<<"q","-","1">>),
              Str(<<"q","0","1">>), Str(<<"q","x">>) }

FreeValues == { Str(agree), Str(strongly_disagree),
                Str(<<"A","G","R","E","E">>), Str(<<"m","a","y","b","e">>),
                PyInt7 }

DistinctKeys(items) ==
    \A a, b \in 1..Len(items) : a # b => items[a][1] # items[b][1]

\* Every dict of n entries over the given keys and values, in every
\* insertion order.
DictsOfSize(n, keys, values) ==
    { Dict(items) : items \in { f \in [1..n -> keys \X values] : DistinctKeys(f) } }

SingleDicts ==
    DictsOfSize(1, {QIds[n] : n \in 1..10} \cup OutOfRangeIds \cup OddIds,
                ScaleValues \cup OtherValues)

\* Questions with the same matrix row get the same answer: 1 for rows
\* Q1,Q3,Q8,Q10; 2 for Q2,Q9; 3 for Q4,Q5; 4 for Q6; 5 for Q7.
RowClass == <<1, 2, 1, 3, 3, 4, 5, 1, 2, 1>>

\* The complete AnswerSets q1..q10 that answer by row class.
ClassDicts ==
    { Dict([n \in 1..10 |-> <<QIds[n], Str(v[RowClass[n]])>>]) :
        v \in [1..5 -> valid_responses] }

AllNeutral == Dict([n \in 1..10 |-> <<QIds[n], Str(neutral)>>])

\* a is a dict of at most MaxAnswers entries over FreeKeys and FreeValues,
\* in any insertion order.
IsFreeDict(a) ==
    \E n \in 0..MaxAnswers : \E items \in [1..n -> FreeKeys \X FreeValues] :
        DistinctKeys(items) /\ a = Dict(items)

\* The inputs of the repeated calls.
CallInputs ==
    { [type |-> "str", items |-> <<>>], AllNeutral,
      Dict(<< <<QIds[6], Str(strongly_disagree)>>, <<QIds[2], Str(agree)>> >>) }
    \cup DictsOfSize(0, FreeKeys, FreeValues)
    \cup DictsOfSize(1, FreeKeys, FreeValues)

\* ------------------------------------------------- steps of the function
\* line 8, a list taken for a mapping
IsDict_mut(obj) == obj.type \in {"dict", "list"}

\* line 8: isinstance(answers, dict)
IsDict(obj) == obj.type = "dict"

\* lines 15 and 17 without the type test of line 15
IsValidAnswer_mut(answer) ==
    answer.type # "str" \/ Lower(answer.s) \in valid_responses

\* lines 15 and 17: the value is a str whose lower case is a scale symbol
IsValidAnswer(answer) ==
    answer.type = "str" /\ Lower(answer.s) \in valid_responses

\* line 44 that keeps an earlier vector
FreshScores_mut(old) == IF old = <<>> THEN <<0, 0, 0, 0, 0>> ELSE old

\* line 44: scores = [0, 0, 0, 0, 0]
FreshScores(old) == <<0, 0, 0, 0, 0>>

\* lines 60-61 with a strict comparison
TraitBit_mut(score) == IF score > 0 THEN <<"1">> ELSE <<"0">>

\* lines 56, 60-61: '1' when the score is >= 0
TraitBit(score) == IF score >= 0 THEN <<"1">> ELSE <<"0">>

\* lines 64-65 with the threshold of the other traits
AnxietyBit_mut(score) == IF score >= 0 THEN <<"1">> ELSE <<"0">>

\* lines 56, 64-65: '1' when the score is >= 1
AnxietyBit(score) == IF score >= 1 THEN <<"1">> ELSE <<"0">>

\* lines 68-69 testing the body_perception bit
ForcePublicImage_mut(bits) ==
    IF bits[4] = <<"1">> /\ bits[3] = <<"0">>
    THEN [bits EXCEPT ![3] = <<"1">>] ELSE bits

\* lines 68-69: binary[4] == '1' and binary[2] == '0' (0-based)
ForcePublicImage(bits) ==
    IF bits[5] = <<"1">> /\ bits[3] = <<"0">>
    THEN [bits EXCEPT ![3] = <<"1">>] ELSE bits

\* line 53 as an assignment instead of +=
Accumulate_mut(score, answer_value, multiplier) == answer_value * multiplier

\* line 53: scores[trait_index] += (answer_value * multiplier)
Accumulate(score, answer_value, multiplier) ==
    score + answer_value * multiplier

\* lines 8-9 that normalise the caller's map in place:
\* answers[q_num] = answer.lower() for every str value
CheckMapping_mut ==
    /\ pc = "start"
    /\ IF IsDict(answers)
       THEN /\ pc' = "validate"
            /\ i' = 1
            /\ raised' = raised
            /\ answers' = [answers EXCEPT !.items =
                             [k \in 1..Len(answers.items) |->
                                <<answers.items[k][1],
                                  IF answers.items[k][2].type = "str"
                                  THEN Str(Lower(answers.items[k][2].s))
                                  ELSE answers.items[k][2]>>]]
       ELSE /\ pc' = "raised"
            /\ i' = i
            /\ raised' = NotADictError
            /\ answers' = answers
    /\ UNCHANGED <<scores, binary, result, ncalls, seen, env>>

\* lines 8-9
CheckMapping ==
    /\ pc = "start"
    /\ IF IsDict(answers)
       THEN /\ pc' = "validate"
            /\ i' = 1
            /\ raised' = raised
       ELSE /\ pc' = "raised"
            /\ i' = i
            /\ raised' = NotADictError
    /\ UNCHANGED <<answers, scores, binary, result, ncalls, seen, env>>

\* lines 14-18 that never move on to the next entry
ValidateAnswer_mut ==
    /\ pc = "validate"
    /\ i <= Len(answers.items)
    /\ LET q_num == answers.items[i][1]
           answer == answers.items[i][2]
       IN  IF IsValidAnswer(answer)
           THEN /\ i' = IF i = 1 THEN i + 1 ELSE i - 1
                /\ pc' = pc
                /\ raised' = raised
           ELSE /\ i' = i
                /\ pc' = "raised"
                /\ raised' = IF answer.type # "str"
                             THEN NotAStringError(q_num)
                             ELSE InvalidAnswerError(q_num, answer)
    /\ UNCHANGED <<answers, scores, binary, result, ncalls, seen, env>>

\* lines 14-18, one iteration of the validation loop
ValidateAnswer ==
    /\ pc = "validate"
    /\ i <= Len(answers.items)
    /\ LET q_num == answers.items[i][1]
           answer == answers.items[i][2]
       IN  IF IsValidAnswer(answer)
           THEN /\ i' = i + 1
                /\ pc' = pc
                /\ raised' = raised
           ELSE /\ i' = i
                /\ pc' = "raised"
                /\ raised' = IF answer.type # "str"
                             THEN NotAStringError(q_num)
                             ELSE InvalidAnswerError(q_num, answer)
    /\ UNCHANGED <<answers, scores, binary, result, ncalls, seen, env>>

\* lines 20-44 with a completeness check: fewer than 10 entries raise
InitScores_mut ==
    /\ pc = "validate"
    /\ i > Len(answers.items)
    /\ IF Len(answers.items) < 10
       THEN /\ raised' = KeyError
            /\ pc' = "raised"
            /\ UNCHANGED <<i, scores>>
       ELSE /\ scores' = FreshScores(scores)
            /\ pc' = "score"
            /\ i' = 1
            /\ raised' = raised
    /\ UNCHANGED <<answers, binary, result, ncalls, seen, env>>

\* lines 20-44, after the validation loop ran to its end
InitScores ==
    /\ pc = "validate"
    /\ i > Len(answers.items)
    /\ scores' = FreshScores(scores)
    /\ pc' = "score"
    /\ i' = 1
    /\ UNCHANGED <<answers, binary, result, raised, ncalls, seen, env>>

\* lines 47-53, one iteration of the scoring loop
ScoreAnswer ==
    /\ pc = "score"
    /\ i <= Len(answers.items)
    /\ LET q_num == answers.items[i][1]
           answer == answers.items[i][2]
           parsed == int(SliceFrom1(q_num.s))
           q_index == parsed.val - 1
           lowered == Lower(answer.s)
           answer_value == answer_values[lowered]
           row == ListIndex(multiplier_matrix, q_index)
       IN  IF q_num.type # "str"
           THEN /\ raised' = NotSubscriptableError
                /\ pc' = "raised"
                /\ UNCHANGED <<i, scores>>
           ELSE IF ~parsed.ok
           THEN /\ raised' = InvalidLiteralError
                /\ pc' = "raised"
                /\ UNCHANGED <<i, scores>>
           ELSE IF answer.type # "str"
           THEN /\ raised' = NoLowerError
                /\ pc' = "raised"
                /\ UNCHANGED <<i, scores>>
           ELSE IF lowered \notin DOMAIN answer_values
           THEN /\ raised' = KeyError
                /\ pc' = "raised"
                /\ UNCHANGED <<i, scores>>
           ELSE IF ~row.ok
           THEN /\ raised' = IndexError
                /\ pc' = "raised"
                /\ UNCHANGED <<i, scores>>
           ELSE /\ scores' = [trait_index \in 1..5 |->
                                Accumulate(scores[trait_index], answer_value,
                                           row.val[trait_index])]
                /\ i' = i + 1
                /\ UNCHANGED <<pc, raised>>
    /\ UNCHANGED <<answers, binary, result, ncalls, seen, env>>

\* lines 56-65, after the scoring loop ran to its end
Binarize ==
    /\ pc = "score"
    /\ i > Len(answers.items)
    /\ binary' = [t \in 1..5 |->
                    IF t <= 4 THEN TraitBit(scores[t]) ELSE AnxietyBit(scores[t])]
    /\ pc' = "override"
    /\ UNCHANGED <<answers, i, scores, result, raised, ncalls, seen, env>>

\* lines 68-69
Override ==
    /\ pc = "override"
    /\ binary' = ForcePublicImage(binary)
    /\ pc' = "lookup"
    /\ UNCHANGED <<answers, i, scores, result, raised, ncalls, seen, env>>

\* lines 72-89
Return ==
    /\ pc = "lookup"
    /\ LET binary_string == join(binary)
       IN  result' = [archetype |-> DictGet(persona_map, binary_string, "Unknown"),
                      binary |-> binary_string,
                      scores |-> scores]
    /\ pc' = "returned"
    /\ UNCHANGED <<answers, i, scores, binary, raised, ncalls, seen, env>>

\* A caller invokes the function again; the finished call may be kept in
\* seen for comparison with a later one.  The locals keep whatever the last
\* call left behind until the new call binds them.
Call ==
    /\ pc \in {"idle", "returned", "raised"}
    /\ ncalls < MaxCalls
    /\ \E a \in CallInputs : answers' = a
    /\ \E keep \in BOOLEAN :
         seen' = IF keep \/ pc = "idle" THEN seen
                 ELSE [answers |-> answers, pc |-> pc, result |-> result,
                       raised |-> raised, n |-> ncalls]
    /\ pc' = "start"
    /\ i' = 0
    /\ result' = NoResult
    /\ raised' = NoError
    /\ ncalls' = ncalls + 1
    /\ UNCHANGED <<scores, binary, env>>

\* One call on any input.
Init ==
    /\ \/ answers \in NonMappings
       \/ IsFreeDict(answers)
       \/ answers \in SingleDicts
       \/ answers \in ClassDicts
    /\ pc = "start"
    /\ i = 0
    /\ scores = <<>>
    /\ binary = <<>>
    /\ result = NoResult
    /\ raised = NoError
    /\ ncalls = 1
    /\ seen = NoCall
    /\ EnvAtRest

Next ==
    \/ CheckMapping
    \/ ValidateAnswer
    \/ InitScores
    \/ ScoreAnswer
    \/ Binarize
    \/ Override
    \/ Return

Spec == Init /\ [][Next]_vars

\* Successive calls.
InitCalls ==
    /\ answers = NoCall.answers
    /\ pc = "idle"
    /\ i = 0
    /\ scores = <<>>
    /\ binary = <<>>
    /\ result = NoResult
    /\ raised = NoError
    /\ ncalls = 0
    /\ seen = NoCall
    /\ EnvAtRest

NextCalls == Next \/ Call

SpecCalls == InitCalls /\ [][NextCalls]_vars

\* ------------------------------------------- the same answers, twice
\* Largest number of entries of the dicts that are called a second time in
\* another insertion order or another letter case.
MaxPermuted == 3

PairKeys == { QIds[1], QIds[2], QIds[6], QIds[7] }

PairValues == { Str(agree), Str(strongly_disagree), Str(<<"m","a","y","b","e">>) }

\* Complete AnswerSets q1..q10 answered agree or strongly_disagree by row
\* class.
PairComplete ==
    { Dict([n \in 1..10 |-> <<QIds[n], Str(v[RowClass[n]])>>]) :
        v \in [1..5 -> {agree, strongly_disagree}] }

\* The orders in which n entries are iterated: every order for a small
\* dict; the reversal, a rotation and a swap for a larger one.
Orders(n) ==
    IF n <= MaxPermuted + 1
    THEN { p \in [1..n -> 1..n] : \A a, b \in 1..n : a # b => p[a] # p[b] }
    ELSE { [k \in 1..n |-> n + 1 - k],
           [k \in 1..n |-> (k % n) + 1],
           [k \in 1..n |-> IF k = 1 THEN 2 ELSE IF k = 2 THEN 1 ELSE k] }

Permuted(items, p) == [k \in 1..Len(items) |-> items[p[k]]]

\* str.upper(), character by character.
UpperChar(c) ==
    IF \E k \in 1..26 : LowerLetters[k] = c
    THEN UpperLetters[CHOOSE k \in 1..26 : LowerLetters[k] = c]
    ELSE c

Upper(chars) == [k \in 1..Len(chars) |-> UpperChar(chars[k])]

\* str.capitalize(): first letter upper case, the rest lower case.
Capitalize(chars) ==
    [k \in 1..Len(chars) |->
        IF k = 1 THEN UpperChar(chars[k]) ELSE LowerChar(chars[k])]

\* The value written in a letter-case style; a value that is no str has
\* no letter case.
Recased(v, style) ==
    IF v.type # "str" THEN v
    ELSE CASE style = "upper" -> Str(Upper(v.s))
           [] style = "capital" -> Str(Capitalize(v.s))
           [] OTHER -> v

\* The styles given to n entries: every combination for a small dict; one
\* style for all entries, or for every other entry, for a larger one.
Recasings(n) ==
    IF n <= MaxPermuted + 1
    THEN [1..n -> {"same", "upper", "capital"}]
    ELSE { [k \in 1..n |-> "upper"], [k \in 1..n |-> "capital"],
           [k \in 1..n |-> IF k % 2 = 0 THEN "upper" ELSE "same"] }

\* The frame is set up for a new call on a; the finished call goes to seen.
CallAgain(a) ==
    /\ answers' = a
    /\ seen' = [answers |-> answers, pc |-> pc, result |-> result,
                raised |-> raised, n |-> ncalls]
    /\ pc' = "start"
    /\ i' = 0
    /\ result' = NoResult
    /\ raised' = NoError
    /\ ncalls' = ncalls + 1
    /\ UNCHANGED <<scores, binary, env>>

\* A caller passes the same entries in another insertion order.
CallPermuted ==
    /\ pc \in {"returned", "raised"}
    /\ ncalls = 1
    /\ answers.type = "dict"
    /\ \E p \in Orders(Len(answers.items)) :
         CallAgain(Dict(Permuted(answers.items, p)))

\* A caller passes the same entries with values in another letter case.
CallRecased ==
    /\ pc \in {"returned", "raised"}
    /\ ncalls = 1
    /\ answers.type = "dict"
    /\ \E f \in Recasings(Len(answers.items)) :
         CallAgain(Dict([k \in 1..Len(answers.items) |->
                           <<answers.items[k][1],
                             Recased(answers.items[k][2], f[k])>>]))

InitPairs ==
    /\ \/ \E n \in 0..MaxPermuted : \E items \in [1..n -> PairKeys \X PairValues] :
            DistinctKeys(items) /\ answers = Dict(items)
       \/ answers \in PairComplete
    /\ pc = "start"
    /\ i = 0
    /\ scores = <<>>
    /\ binary = <<>>
    /\ result = NoResult
    /\ raised = NoError
    /\ ncalls = 1
    /\ seen = NoCall
    /\ EnvAtRest

NextPairs == Next \/ CallPermuted \/ CallRecased

SpecPairs == InitPairs /\ [][NextPairs]_vars

\* ---------------------------------------------------- concurrent calls
\* The inputs of the calls that run concurrently.
ConcInputs ==
    { [type |-> "list", items |-> <<>>],
      Dict(<<>>),
      AllNeutral,
      Dict([n \in 1..10 |->
              <<QIds[n], Str(IF n % 2 = 0 THEN agree ELSE strongly_disagree)>>]),
      Dict(<< <<QIds[6], Str(strongly_disagree)>>, <<QIds[2], Str(agree)>> >>),
      Dict(<< <<QIds[1], Str(agree)>>, <<QIds[7], Str(<<"A","G","R","E","E">>)>> >>),
      Dict(<< <<QIds[2], Str(strongly_disagree)>> >>),
      Dict(<< <<Str(<<"q","0">>), Str(agree)>> >>),
      Dict(<< <<QIds[1], Str(agree)>>, <<Str(<<"q","1","1">>), Str(agree)>> >>),
      Dict(<< <<QIds[1], Str(agree)>>, <<Str(<<"q","x">>), Str(agree)>> >>),
      Dict(<< <<QIds[1], Str(agree)>>, <<QIds[2], Str(<<"m","a","y","b","e">>)>> >>),
      Dict(<< <<QIds[1], PyInt7>> >>) }

\* The locals of the running call, as a frame.
RunningFrame ==
    [answers |-> answers, pc |-> pc, i |-> i, scores |-> scores,
     binary |-> binary, result |-> result, raised |-> raised]

\* The frame of a call on a that has not executed a statement.
NewFrame(a) ==
    [answers |-> a, pc |-> "start", i |-> 0, scores |-> <<>>,
     binary |-> <<>>, result |-> NoResult, raised |-> NoError]

\* line 44 binding one list shared by all calls
OwnScores_mut(own, running) == running

\* line 44: scores is a local name, bound to a list of the call's own; the
\* call that resumes sees the vector of its frame, not the one of the call
\* that ran last.
OwnScores(own, running) == own

\* Two threads call the function at the same time: the finished call is
\* kept in seen, the running thread calls again on the same answers and a
\* second thread calls on any input.
Spawn ==
    /\ pc \in {"returned", "raised"}
    /\ ncalls = 1
    /\ suspended = NoFrame
    /\ seen' = [answers |-> answers, pc |-> pc, result |-> result,
                raised |-> raised, n |-> ncalls]
    /\ \E b \in ConcInputs : suspended' = NewFrame(b)
    /\ pc' = "start"
    /\ i' = 0
    /\ scores' = <<>>
    /\ binary' = <<>>
    /\ result' = NoResult
    /\ raised' = NoError
    /\ ncalls' = 2
    /\ UNCHANGED <<answers, handler, db, response, created, side>>

\* The interpreter switches to the other thread, between any two
\* statements.
Switch ==
    /\ suspended.pc \notin {"none", "returned", "raised"}
    /\ suspended' = [RunningFrame EXCEPT
                       !.scores = OwnScores(scores, suspended.scores)]
    /\ answers' = suspended.answers
    /\ pc' = suspended.pc
    /\ i' = suspended.i
    /\ scores' = OwnScores(suspended.scores, scores)
    /\ binary' = suspended.binary
    /\ result' = suspended.result
    /\ raised' = suspended.raised
    /\ UNCHANGED <<ncalls, seen, handler, db, response, created, side>>

InitConc ==
    /\ answers \in ConcInputs
    /\ pc = "start"
    /\ i = 0
    /\ scores = <<>>
    /\ binary = <<>>
    /\ result = NoResult
    /\ raised = NoError
    /\ ncalls = 1
    /\ seen = NoCall
    /\ EnvAtRest

NextConc == Next \/ Spawn \/ Switch

SpecConc == InitConc /\ [][NextConc]_vars

\* ------------------------------------------- the consultation endpoints
\* src/app.py, create_consultation and get_consultation, with the
\* Consultation rows of src/models.py.
\* Largest number of stored consultations.
MaxConsultations == 2

\* The identities of the access tokens.
Users == {1, 2}

\* JSON text as a sequence of tokens [t, s, n]: t the kind of token, s the
\* characters of a string token, n the value of a number token.
Tok(t, s, n) == [t |-> t, s |-> s, n |-> n]

Punct(t) == Tok(t, <<>>, 0)

\* json.dumps of a dict key: a str as it is, an int as its digits.
DumpKey(key) ==
    IF key.type = "str" THEN Tok("str", key.s, 0) ELSE Tok("str", <<"7">>, 0)

\* json.dumps of a str, int or None value.
DumpValue(v) ==
    CASE v.type = "str" -> Tok("str", v.s, 0)
      [] v.type = "int" -> Tok("int", <<>>, 7)
      [] OTHER -> Punct("null")

\* json.loads of a value token.
LoadValue(tok) ==
    CASE tok.t = "str" -> Str(tok.s)
      [] tok.t = "int" -> PyInt7
      [] OTHER -> PyNone

RECURSIVE DumpItems(_)
DumpItems(items) ==
    IF Len(items) = 0 THEN <<>>
    ELSE <<DumpKey(Head(items)[1]), Punct(":"), DumpValue(Head(items)[2])>>
           \o (IF Len(items) > 1 THEN <<Punct(",")>> ELSE <<>>)
           \o DumpItems(Tail(items))

\* json.dumps(answers) (models.py line 50)
json_dumps_answers(a) == <<Punct("{")>> \o DumpItems(a.items) \o <<Punct("}")>>

\* json.loads(answers_json) (app.py line 357): an entry every 4 tokens.
json_loads_answers(tokens) ==
    Dict([k \in 1..((Len(tokens) - 1) \div 4) |->
            <<Str(tokens[4 * k - 2].s), LoadValue(tokens[4 * k])>>])

RECURSIVE DumpInts(_)
DumpInts(list) ==
    IF Len(list) = 0 THEN <<>>
    ELSE <<Tok("int", <<>>, Head(list))>>
           \o (IF Len(list) > 1 THEN <<Punct(",")>> ELSE <<>>)
           \o DumpInts(Tail(list))

\* json.dumps(result) (models.py line 51), the keys in insertion order.
json_dumps_result(r) ==
    << Punct("{"), Tok("str", <<"archetype">>, 0), Punct(":"),
       Tok("str", <<r.archetype>>, 0), Punct(","),
       Tok("str", <<"binary">>, 0), Punct(":"), Tok("str", r.binary, 0),
       Punct(","), Tok("str", <<"scores">>, 0), Punct(":"), Punct("[") >>
    \o DumpInts(r.scores) \o << Punct("]"), Punct("}") >>

\* The value token that follows the key token of the given name.
ValueAfterKey(tokens, name) ==
    (CHOOSE k \in 1..Len(tokens) :
        tokens[k] = Tok("str", <<name>>, 0) /\ tokens[k + 1] = Punct(":")) + 2

\* json.loads(result_json) (app.py line 356)
json_loads_result(tokens) ==
    LET first == ValueAfterKey(tokens, "scores") + 1
        last == (CHOOSE k \in first..Len(tokens) : tokens[k] = Punct("]")) - 1
    IN  [archetype |-> tokens[ValueAfterKey(tokens, "archetype")].s[1],
         binary |-> tokens[ValueAfterKey(tokens, "binary")].s,
         scores |-> [k \in 1..((last - first) \div 2 + 1) |->
                       tokens[first + 2 * (k - 1)].n]]

\* models.py lines 41-52: Consultation(user_id, answers, result, status),
\* the id given by the database at commit.
Consultation(id, user_id, a, r) ==
    [id |-> id, user_id |-> user_id,
     answers_json |-> json_dumps_answers(a),
     result_json |-> json_dumps_result(r),
     status |-> "completed"]

\* request.get_json(): its type, its truth value, whether it has the key
\* 'answers', and the value of that key.
Data(type, truthy, has_answers, a) ==
    [type |-> type, truthy |-> truthy, has_answers |-> has_answers,
     answers |-> a]

\* The ten answers neutral but one, given by key and value, in place or
\* added.
NeutralWith(key, value) ==
    IF key \in { QIds[n] : n \in 1..10 }
    THEN Dict([n \in 1..10 |->
                 <<QIds[n], IF QIds[n] = key THEN value ELSE Str(neutral)>>])
    ELSE Dict(AllNeutral.items \o << <<key, value>> >>)

RequestAnswers ==
    { [type |-> "list", items |-> <<>>],
      Dict(<<>>),
      Dict(SubSeq(AllNeutral.items, 1, 9)),
      NeutralWith(QIds[3], Str(<<"m","a","y","b","e">>)),
      NeutralWith(QIds[3], PyInt7),
      AllNeutral,
      NeutralWith(QIds[6], Str(<<"A","G","R","E","E">>)),
      Dict([n \in 1..10 |->
              <<QIds[n], Str(IF n % 2 = 0 THEN agree ELSE strongly_disagree)>>]),
      NeutralWith(Str(<<"q","0">>), Str(agree)),
      NeutralWith(Str(<<"q","0","1">>), Str(strongly_agree)),
      NeutralWith(Str(<<"q","1","1">>), Str(agree)),
      NeutralWith(Str(<<"q","x">>), Str(agree)) }

RequestBodies ==
    { Data("list", TRUE, FALSE, NoFrame.answers),
      Data("dict", FALSE, FALSE, NoFrame.answers),
      Data("dict", TRUE, FALSE, NoFrame.answers) }
    \cup { Data("dict", TRUE, TRUE, a) : a \in RequestAnswers }

Response(status, error, message, key, r, a, id) ==
    [status |-> status, error |-> error, message |-> message, key |-> key,
     result |-> r, answers |-> a, id |-> id]

\* app.py line 262: {f"q{i}" for i in range(1, 11)}
required_questions == { QIds[n] : n \in 1..10 }

\* app.py line 271
valid_answers == {strongly_agree, agree, neutral, disagree, strongly_disagree}

\* app.py line 273, negated: a str whose lower case is a valid answer
IsValidOption(answer) ==
    answer.type = "str" /\ Lower(answer.s) \in valid_answers

\* The call's frame when no call is in progress.
FrameAtRest ==
    /\ answers' = NoFrame.answers
    /\ pc' = "idle"
    /\ i' = 0
    /\ scores' = <<>>
    /\ binary' = <<>>
    /\ result' = NoResult
    /\ raised' = NoError

\* app.py lines 240-280: POST /consultations up to the call of the
\* classifier; every early return answers the request.
create_consultation(current_user_id, data) ==
    /\ handler.pc = "idle"
    /\ Len(db) < MaxConsultations
    /\ LET a == data.answers
           keys == { a.items[k][1] : k \in 1..Len(a.items) }
           missing_questions == required_questions \ keys
           invalid == { k \in 1..Len(a.items) : ~IsValidOption(a.items[k][2]) }
           first == CHOOSE k \in invalid : \A j \in invalid : k <= j
       IN  IF ~data.truthy \/ data.type # "dict"
           THEN /\ response' = Response(400, "Bad Request", "Invalid JSON format",
                                        PyNone, NoResult, NoFrame.answers, 0)
                /\ UNCHANGED <<answers, pc, i, scores, binary, result, raised,
                               handler>>
           ELSE IF ~data.has_answers
           THEN /\ response' = Response(400, "Bad Request",
                                        "Missing 'answers' field in request",
                                        PyNone, NoResult, NoFrame.answers, 0)
                /\ UNCHANGED <<answers, pc, i, scores, binary, result, raised,
                               handler>>
           ELSE IF a.type # "dict"
           THEN /\ response' = Response(500, "Internal Server Error",
                                        "object has no attribute 'keys'",
                                        PyNone, NoResult, NoFrame.answers, 0)
                /\ UNCHANGED <<answers, pc, i, scores, binary, result, raised,
                               handler>>
           ELSE IF missing_questions # {}
           THEN /\ response' = Response(422, "Unprocessable Entity",
                                        "Missing required questions",
                                        PyNone, NoResult, NoFrame.answers, 0)
                /\ UNCHANGED <<answers, pc, i, scores, binary, result, raised,
                               handler>>
           ELSE IF invalid # {}
           THEN /\ response' = Response(422, "Unprocessable Entity",
                                        "Invalid answer for {q_num}",
                                        a.items[first][1], NoResult,
                                        NoFrame.answers, 0)
                /\ UNCHANGED <<answers, pc, i, scores, binary, result, raised,
                               handler>>
           ELSE /\ answers' = a
                /\ pc' = "start"
                /\ i' = 0
                /\ scores' = <<>>
                /\ binary' = <<>>
                /\ result' = NoResult
                /\ raised' = NoError
                /\ handler' = [pc |-> "calling", user |-> current_user_id]
                /\ response' = NoResponse
    /\ request' = Request("create_consultation", current_user_id, 0, NoBody)
    /\ payload' = NoPayload
    /\ UNCHANGED <<ncalls, seen, suspended, db, created, users, now, ntokens,
                   accepted, feedback>>

\* app.py lines 280-296 answering 201 without db.session.add
create_consultation_commit_mut ==
    /\ handler.pc = "calling"
    /\ pc = "returned"
    /\ response' = Response(201, "", "Consultation created successfully",
                            PyNone, result, NoFrame.answers, Len(db) + 1)
    /\ handler' = NoHandler
    /\ FrameAtRest
    /\ UNCHANGED <<ncalls, seen, suspended, db, created, side>>

\* app.py lines 280-296: the classifier returned; the consultation is
\* stored and the result answered.
create_consultation_commit ==
    /\ handler.pc = "calling"
    /\ pc = "returned"
    /\ LET consultation == Consultation(Len(db) + 1, handler.user, answers, result)
       IN  /\ db' = Append(db, consultation)
           /\ response' = Response(201, "", "Consultation created successfully",
                                   PyNone, result, NoFrame.answers,
                                   consultation.id)
    /\ created' = Append(created, [answers |-> answers, result |-> result])
    /\ handler' = NoHandler
    /\ FrameAtRest
    /\ UNCHANGED <<ncalls, seen, suspended, side>>

\* app.py lines 298-304: the classifier raised; rollback and 500 with
\* str(e) as the message.
create_consultation_except ==
    /\ handler.pc = "calling"
    /\ pc = "raised"
    /\ response' = Response(500, "Internal Server Error", raised.msg, PyNone,
                            NoResult, NoFrame.answers, 0)
    /\ handler' = NoHandler
    /\ FrameAtRest
    /\ UNCHANGED <<ncalls, seen, suspended, db, created, side>>

\* app.py lines 333-360 with the query filtered by id only
get_consultation_mut(current_user_id, consultation_id) ==
    /\ handler.pc = "idle"
    /\ LET found == { k \in 1..Len(db) : db[k].id = consultation_id }
           consultation == db[CHOOSE k \in found : TRUE]
       IN  IF found = {}
           THEN response' = Response(404, "Not Found", "Consultation not found",
                                     PyNone, NoResult, NoFrame.answers, 0)
           ELSE response' = Response(200, "", "", PyNone,
                                     json_loads_result(consultation.result_json),
                                     json_loads_answers(consultation.answers_json),
                                     consultation.id)
    /\ request' = Request("get_consultation", current_user_id, consultation_id,
                          NoBody)
    /\ payload' = NoPayload
    /\ UNCHANGED <<answers, pc, i, scores, binary, result, raised, ncalls, seen,
                   suspended, handler, db, created, users, now, ntokens,
                   accepted, feedback>>

\* app.py lines 333-360: GET /consultations/<id>
get_consultation(current_user_id, consultation_id) ==
    /\ handler.pc = "idle"
    /\ LET found == { k \in 1..Len(db) :
                        /\ db[k].id = consultation_id
                        /\ db[k].user_id = current_user_id }
           consultation == db[CHOOSE k \in found : TRUE]
       IN  IF found = {}
           THEN response' = Response(404, "Not Found", "Consultation not found",
                                     PyNone, NoResult, NoFrame.answers, 0)
           ELSE response' = Response(200, "", "", PyNone,
                                     json_loads_result(consultation.result_json),
                                     json_loads_answers(consultation.answers_json),
                                     consultation.id)
    /\ request' = Request("get_consultation", current_user_id, consultation_id,
                          NoBody)
    /\ payload' = NoPayload
    /\ UNCHANGED <<answers, pc, i, scores, binary, result, raised, ncalls, seen,
                   suspended, handler, db, created, users, now, ntokens,
                   accepted, feedback>>

\* The rows of a query in descending order of created_at: last stored
\* first.
RECURSIVE Descending(_)
Descending(rows) ==
    IF Len(rows) = 0 THEN <<>>
    ELSE <<rows[Len(rows)]>> \o Descending(SubSeq(rows, 1, Len(rows) - 1))

\* app.py lines 306-324: GET /consultations
get_consultations(current_user_id) ==
    /\ handler.pc = "idle"
    /\ LET IsOwn(consultation) == consultation.user_id = current_user_id
           consultations == Descending(SelectSeq(db, IsOwn))
           consultations_list ==
               [k \in 1..Len(consultations) |->
                  [id |-> consultations[k].id,
                   result |-> json_loads_result(consultations[k].result_json),
                   answers |-> json_loads_answers(consultations[k].answers_json)]]
       IN  /\ response' = Response(200, "", "", PyNone, NoResult,
                                   NoFrame.answers, 0)
           /\ payload' = [NoPayload EXCEPT !.list = consultations_list]
    /\ request' = Request("get_consultations", current_user_id, 0, NoBody)
    /\ UNCHANGED <<answers, pc, i, scores, binary, result, raised, ncalls, seen,
                   suspended, handler, db, created, users, now, ntokens,
                   accepted, feedback>>

InitApp ==
    /\ answers = NoFrame.answers
    /\ pc = "idle"
    /\ i = 0
    /\ scores = <<>>
    /\ binary = <<>>
    /\ result = NoResult
    /\ raised = NoError
    /\ ncalls = 0
    /\ seen = NoCall
    /\ EnvAtRest

NextApp ==
    \/ Next
    \/ \E user \in Users, data \in RequestBodies : create_consultation(user, data)
    \/ create_consultation_commit
    \/ create_consultation_except
    \/ \E user \in Users, id \in 1..(MaxConsultations + 1) :
         get_consultation(user, id)
    \/ \E user \in Users : get_consultations(user)

SpecApp == InitApp /\ [][NextApp]_vars

\* ------------------------------------------------------------ feedback
\* src/app.py, create_or_update_feedback, with the Feedback rows of
\* src/models.py.  JSON true, false and null are "true", "false", "null".
FeedbackBody(has_fields, is_satisfied, has_purchased, notes) ==
    [NoBody EXCEPT !.has_fields = has_fields, !.is_satisfied = is_satisfied,
                   !.has_purchased = has_purchased, !.notes = notes]

\* The request bodies: one without the required fields, two complete ones
\* (the second without notes, so that data.get('notes', '') is ''), and
\* one whose is_satisfied is null.
FeedbackBodies ==
    { FeedbackBody(FALSE, "", "", "late"),
      FeedbackBody(TRUE, "true", "false", "fits"),
      FeedbackBody(TRUE, "false", "true", ""),
      FeedbackBody(TRUE, "null", "true", "fits") }

\* models.py lines 72-84: Feedback(...) with its autoincrement id
Feedback(id, consultation_id, user_id, data) ==
    [id |-> id, consultation_id |-> consultation_id, user_id |-> user_id,
     is_satisfied |-> data.is_satisfied, has_purchased |-> data.has_purchased,
     notes |-> data.notes]

\* models.py lines 76, 79-80 at commit: the columns are not nullable and
\* consultation_id is a foreign key to consultations.id.
IntegrityError(row) ==
    \/ row.is_satisfied = "null"
    \/ row.has_purchased = "null"
    \/ \A k \in 1..Len(db) : db[k].id # row.consultation_id

\* app.py lines 369-403 that add a record without looking for one
create_or_update_feedback_mut(current_user_id, consultation_id, data) ==
    /\ handler.pc = "idle"
    /\ request' = Request("create_or_update_feedback", current_user_id,
                          consultation_id, data)
    /\ IF ~data.has_fields
       THEN /\ response' = Response(400, "Missing required fields", "", PyNone,
                                    NoResult, NoFrame.answers, 0)
            /\ payload' = NoPayload
            /\ feedback' = feedback
       ELSE LET row == Feedback(Len(feedback) + 1, consultation_id,
                               current_user_id, data)
            IN  IF IntegrityError(row)
                THEN /\ response' = Response(500, "IntegrityError", "", PyNone,
                                             NoResult, NoFrame.answers, 0)
                     /\ payload' = NoPayload
                     /\ feedback' = feedback
                ELSE /\ response' = Response(200, "", "", PyNone, NoResult,
                                             NoFrame.answers, 0)
                     /\ payload' = [NoPayload EXCEPT !.feedback = row]
                     /\ feedback' = Append(feedback, row)
    /\ UNCHANGED <<answers, pc, i, scores, binary, result, raised, ncalls, seen,
                   suspended, handler, db, created, users, now,
                   ntokens, accepted>>

\* app.py lines 369-403: POST /consultations/<id>/feedback
create_or_update_feedback(current_user_id, consultation_id, data) ==
    /\ handler.pc = "idle"
    /\ request' = Request("create_or_update_feedback", current_user_id,
                          consultation_id, data)
    /\ IF ~data.has_fields
       THEN /\ response' = Response(400, "Missing required fields", "", PyNone,
                                    NoResult, NoFrame.answers, 0)
            /\ payload' = NoPayload
            /\ feedback' = feedback
       ELSE LET found == { k \in 1..Len(feedback) :
                             feedback[k].consultation_id = consultation_id }
                first == CHOOSE k \in found : \A j \in found : k <= j
                row == IF found # {}
                       THEN [feedback[first] EXCEPT
                               !.is_satisfied = data.is_satisfied,
                               !.has_purchased = data.has_purchased,
                               !.notes = data.notes]
                       ELSE Feedback(Len(feedback) + 1, consultation_id,
                                     current_user_id, data)
            IN  IF IntegrityError(row)
                THEN /\ response' = Response(500, "IntegrityError", "", PyNone,
                                             NoResult, NoFrame.answers, 0)
                     /\ payload' = NoPayload
                     /\ feedback' = feedback
                ELSE /\ response' = Response(200, "", "", PyNone, NoResult,
                                             NoFrame.answers, 0)
                     /\ payload' = [NoPayload EXCEPT !.feedback = row]
                     /\ feedback' = IF found # {}
                                    THEN [feedback EXCEPT ![first] = row]
                                    ELSE Append(feedback, row)
    /\ UNCHANGED <<answers, pc, i, scores, binary, result, raised, ncalls, seen,
                   suspended, handler, db, created, users, now, ntokens,
                   accepted>>

\* The consultations the feedback is given on, all created by one user: a
\* body the classifier accepts and one it rejects.
FeedbackSetup ==
    { Data("dict", TRUE, TRUE, AllNeutral),
      Data("dict", TRUE, TRUE, NeutralWith(Str(<<"q","1","1">>), Str(agree))) }

NextFeedback ==
    \/ Next
    \/ \E data \in FeedbackSetup : create_consultation(1, data)
    \/ create_consultation_commit
    \/ create_consultation_except
    \/ \E user \in Users, id \in 1..(Len(db) + 1), data \in FeedbackBodies :
          create_or_update_feedback(user, id, data)

SpecFeedback == InitApp /\ [][NextFeedback]_vars

\* --------------------------------------------------------------- logins
\* src/app.py, login and login_with_token, with the User rows of
\* src/models.py.  The clock counts days; a remember token is the number
\* of its generation (secrets.token_hex(32) never returns a value twice),
\* 0 is None; an access token is the id of its identity, 0 is none.
\* Largest number of remember tokens generated.
MaxTokens == 3
\* Largest number of steps of the clock.
MaxTicks == 2
\* Days in a step of the clock.
TickDays == 16

\* app.py line 205: timedelta(days=30)
token_max_age == 30

Emails == {"ana@x", "bo@x"}

Passwords == {"pw", "other"}

LoginBody(has_fields, email, password, remember_me, remember_token) ==
    [NoBody EXCEPT !.has_fields = has_fields, !.email = email,
                   !.password = password, !.remember_me = remember_me,
                   !.remember_token = remember_token]

\* The bodies of POST /login: {} and every email (or none) with every
\* password (or none), with and without remember_me.
LoginBodies ==
    { LoginBody(FALSE, "", "", FALSE, 0) }
    \cup { LoginBody(TRUE, e, p, r, 0) :
             e \in Emails \cup {""}, p \in Passwords \cup {""}, r \in BOOLEAN }

\* The bodies of POST /login/token: {} and every email (or none) with
\* every token generated so far, none, or one never generated (-1).
TokenBodies ==
    { LoginBody(FALSE, "", "", FALSE, 0) }
    \cup { LoginBody(TRUE, e, "", FALSE, t) :
             e \in Emails \cup {""}, t \in -1..ntokens }

\* models.py lines 9-16: a users row
User(id, email, password, remember_token, last_login) ==
    [id |-> id, email |-> email, password |-> password,
     remember_token |-> remember_token, last_login |-> last_login]

AuthResponse(status, msg, access_token, remember_token) ==
    /\ response' = Response(status, "", msg, PyNone, NoResult, NoFrame.answers, 0)
    /\ payload' = [NoPayload EXCEPT !.access_token = access_token,
                                    !.remember_token = remember_token]

\* app.py line 115: User.query.filter_by(email=email).first()
get_user_by_email(email) == { k \in 1..Len(users) : users[k].email = email }

\* app.py lines 130-181: POST /login
login(data) ==
    /\ handler.pc = "idle"
    /\ ntokens < MaxTokens
    /\ request' = Request("login", 0, 0, data)
    /\ LET found == get_user_by_email(data.email)
           k == IF found = {} THEN Len(users) + 1 ELSE CHOOSE j \in found : TRUE
           user == IF found = {}
                   THEN User(k, data.email, data.password, 0, now)
                   ELSE users[k]
           remember_token == ntokens + 1
           logged == [user EXCEPT
                        !.last_login = now,
                        !.remember_token =
                            IF data.remember_me THEN remember_token ELSE @]
       IN  IF ~data.has_fields
           THEN /\ AuthResponse(400, "Missing JSON in request", 0, 0)
                /\ UNCHANGED <<users, ntokens>>
           ELSE IF data.email = "" \/ data.password = ""
           THEN /\ AuthResponse(400, "Missing email or password", 0, 0)
                /\ UNCHANGED <<users, ntokens>>
           ELSE IF found # {} /\ user.password # data.password
           THEN /\ AuthResponse(401, "Invalid credentials", 0, 0)
                /\ UNCHANGED <<users, ntokens>>
           ELSE /\ users' = IF found = {} THEN Append(users, logged)
                            ELSE [users EXCEPT ![k] = logged]
                /\ ntokens' = IF data.remember_me THEN ntokens + 1 ELSE ntokens
                /\ AuthResponse(200, "", user.id,
                                IF data.remember_me THEN remember_token ELSE 0)
    /\ UNCHANGED <<answers, pc, i, scores, binary, result, raised, ncalls, seen,
                   suspended, handler, db, created, now, accepted, feedback>>

\* app.py lines 183-238 that leave the remember token as it is
login_with_token_mut(data) ==
    /\ handler.pc = "idle"
    /\ ntokens < MaxTokens
    /\ request' = Request("login_with_token", 0, 0, data)
    /\ LET found == { k \in 1..Len(users) :
                        /\ users[k].email = data.email
                        /\ users[k].remember_token = data.remember_token }
           k == CHOOSE j \in found : TRUE
           user == users[k]
       IN  IF ~data.has_fields
           THEN /\ AuthResponse(400, "Missing JSON in request", 0, 0)
                /\ UNCHANGED <<users, ntokens, accepted>>
           ELSE IF data.email = "" \/ data.remember_token = 0
           THEN /\ AuthResponse(400, "Missing email or token", 0, 0)
                /\ UNCHANGED <<users, ntokens, accepted>>
           ELSE IF found = {}
           THEN /\ AuthResponse(401, "Invalid token", 0, 0)
                /\ UNCHANGED <<users, ntokens, accepted>>
           ELSE IF now - user.last_login > token_max_age
           THEN /\ users' = [users EXCEPT ![k].remember_token = 0]
                /\ AuthResponse(401, "Token expired", 0, 0)
                /\ UNCHANGED <<ntokens, accepted>>
           ELSE /\ users' = [users EXCEPT ![k].last_login = now]
                /\ ntokens' = ntokens
                /\ accepted' = accepted \cup {data.remember_token}
                /\ AuthResponse(200, "", user.id, user.remember_token)
    /\ UNCHANGED <<answers, pc, i, scores, binary, result, raised, ncalls, seen,
                   suspended, handler, db, created, now, feedback>>

\* app.py lines 183-238: POST /login/token
login_with_token(data) ==
    /\ handler.pc = "idle"
    /\ ntokens < MaxTokens
    /\ request' = Request("login_with_token", 0, 0, data)
    /\ LET found == { k \in 1..Len(users) :
                        /\ users[k].email = data.email
                        /\ users[k].remember_token = data.remember_token }
           k == CHOOSE j \in found : TRUE
           user == users[k]
           new_remember_token == ntokens + 1
       IN  IF ~data.has_fields
           THEN /\ AuthResponse(400, "Missing JSON in request", 0, 0)
                /\ UNCHANGED <<users, ntokens, accepted>>
           ELSE IF data.email = "" \/ data.remember_token = 0
           THEN /\ AuthResponse(400, "Missing email or token", 0, 0)
                /\ UNCHANGED <<users, ntokens, accepted>>
           ELSE IF found = {}
           THEN /\ AuthResponse(401, "Invalid token", 0, 0)
                /\ UNCHANGED <<users, ntokens, accepted>>
           ELSE IF now - user.last_login > token_max_age
           THEN /\ users' = [users EXCEPT ![k].remember_token = 0]
                /\ AuthResponse(401, "Token expired", 0, 0)
                /\ UNCHANGED <<ntokens, accepted>>
           ELSE /\ users' = [users EXCEPT ![k].last_login = now,
                                          ![k].remember_token = new_remember_token]
                /\ ntokens' = ntokens + 1
                /\ accepted' = accepted \cup {data.remember_token}
                /\ AuthResponse(200, "", user.id, new_remember_token)
    /\ UNCHANGED <<answers, pc, i, scores, binary, result, raised, ncalls, seen,
                   suspended, handler, db, created, now, feedback>>

\* datetime.utcnow() moves on between two requests.
Tick ==
    /\ handler.pc = "idle"
    /\ now < MaxTicks * TickDays
    /\ now' = now + TickDays
    /\ UNCHANGED <<answers, pc, i, scores, binary, result, raised, ncalls, seen,
                   suspended, handler, db, response, created, request, payload,
                   users, ntokens, accepted, feedback>>

NextAuth ==
    \/ \E data \in LoginBodies : login(data)
    \/ \E data \in TokenBodies : login_with_token(data)
    \/ Tick

SpecAuth == InitApp /\ [][NextAuth]_vars

\* ---------------------------------------------- vocabulary of the claims
QIdSet == { QIds[n] : n \in 1..10 }

\* The question number N of a canonical identifier q<N>.
QNumber(key) == CHOOSE n \in 1..10 : QIds[n] = key

AgreeSpellings == { agree, <<"A","g","r","e","e">>, <<"A","G","R","E","E">> }

NeutralSpellings == { neutral, <<"N","e","u","t","r","a","l">> }

\* The value is one of the 5 scale symbols, in some letter case.
IsScaleSymbol(v) ==
    /\ v.type = "str"
    /\ v.s \in {strongly_disagree, disagree, strongly_agree}
                 \cup AgreeSpellings \cup NeutralSpellings

\* strongly_disagree=-2, disagree=-1, neutral=0, agree=1, strongly_agree=2
ScaleValue(v) ==
    CASE v.s = strongly_disagree -> -2
      [] v.s = disagree -> -1
      [] v.s \in NeutralSpellings -> 0
      [] v.s \in AgreeSpellings -> 1
      [] v.s = strongly_agree -> 2

\* The coefficient table of the specification, row N, trait c.
Coefficient(N, c) ==
    LET plus == [t \in 1..5 |-> IF t \in {1, 4} THEN 1 ELSE IF t = 5 THEN -1 ELSE 0]
        minus == [t \in 1..5 |-> -plus[t]]
    IN  CASE N \in {1, 3, 8, 10} -> plus[c]
          [] N \in {2, 9} -> minus[c] + (IF c = 2 THEN 1 ELSE 0)
          [] N \in {4, 5} -> IF c = 2 THEN 1 ELSE 0
          [] N = 6 -> IF c = 3 THEN 1 ELSE 0
          [] N = 7 -> minus[c] + (IF c = 3 THEN 1 ELSE 0)

RECURSIVE WeightedSum(_, _)
WeightedSum(items, c) ==
    IF Len(items) = 0 THEN 0
    ELSE ScaleValue(Head(items)[2]) * Coefficient(QNumber(Head(items)[1]), c)
           + WeightedSum(Tail(items), c)

\* An AnswerSet: identifiers among q1..q10, values valid scale symbols.
IsAnswerSet(a) ==
    /\ a.type = "dict"
    /\ \A k \in 1..Len(a.items) :
         a.items[k][1] \in QIdSet /\ IsScaleSymbol(a.items[k][2])

Bit(b) == IF b THEN "1" ELSE "0"

\* ---------------------------------------------------------------- claims
\* C1: for every AnswerSet over q1..q10 with valid values the call returns,
\* and scores[c] is the sum over the answered questions q<N> of
\* value(answer) * multiplier_matrix[N-1][c], for each of the 5 traits.
C1_ScoresAreWeightedSums ==
    IsAnswerSet(answers) =>
        /\ pc # "raised"
        /\ pc = "returned" =>
             /\ Len(result.scores) = 5
             /\ \A c \in 1..5 : result.scores[c] = WeightedSum(answers.items, c)

C1_Witness ==
    /\ pc = "returned"
    /\ IsAnswerSet(answers)
    /\ Len(answers.items) = 10
    /\ result.scores = <<14, -4, -1, 14, -14>>

\* C2: in every returned result the self_esteem, introspection and
\* body_perception bits are '1' exactly when the raw score is >= 0 and the
\* social_anxiety bit is '1' exactly when scores[4] >= 1; a raw sum of 0
\* gives '0' for social_anxiety and '1' for each of the other four traits.
C2_Thresholds ==
    pc = "returned" =>
        /\ Len(result.binary) = 5
        /\ \A t \in {1, 2, 4} : result.binary[t] = Bit(result.scores[t] >= 0)
        /\ result.binary[5] = Bit(result.scores[5] >= 1)
        /\ \A t \in 1..4 : result.scores[t] = 0 => result.binary[t] = "1"
        /\ result.scores[5] = 0 => result.binary[5] = "0"

C2_Witness ==
    /\ pc = "returned"
    /\ result.scores[5] = 0
    /\ result.scores[3] = 0
    /\ result.scores[2] < 0
    /\ result.binary = <<"1", "0", "1", "1", "0">>

\* C3: the override acts once, on independently binarized bits: the final
\* public_image bit is '1' exactly when scores[2] >= 0 or the social_anxiety
\* bit is '1'; the override step changes no other bit and not the scores.
C3_OverrideState ==
    pc = "returned" =>
        result.binary[3] = Bit(result.scores[3] >= 0 \/ result.binary[5] = "1")

C3_OverrideStep ==
    pc = "override" =>
        /\ scores' = scores
        /\ \A t \in {1, 2, 4, 5} : binary'[t] = binary[t]
        /\ binary[3] = <<"1">> => binary' = binary
        /\ binary' # binary => binary[5] = <<"1">> /\ scores[3] < 0

C3_Override == []C3_OverrideState /\ [][C3_OverrideStep]_vars

C3_Witness ==
    /\ pc = "returned"
    /\ result.scores[3] < 0
    /\ result.scores[5] >= 1
    /\ result.binary[3] = "1"

\* C4: the returned archetype is the catalog name of the returned binary
\* code when the code is one of the 6 cataloged codes, and "Unknown"
\* otherwise; the lookup raises no error.
C4_Archetype ==
    pc = "returned" =>
        /\ raised = NoError
        /\ result.archetype =
             CASE result.binary = <<"0","0","1","0","1">> -> "Refined Style"
               [] result.binary = <<"0","1","1","0","1">> -> "Modern Elegance"
               [] result.binary = <<"1","0","0","1","0">> -> "Bold Spirit"
               [] result.binary = <<"1","0","1","1","0">> -> "Radiant Simplicity"
               [] result.binary = <<"1","1","0","1","0">> -> "Authentic Beauty"
               [] result.binary = <<"1","1","1","1","0">> -> "Creative Expression"
               [] OTHER -> "Unknown"

C4_Witness ==
    /\ pc = "returned"
    /\ result.binary = <<"1","1","0","1","0">>
    /\ result.archetype = "Authentic Beauty"

\* C5: all 10 answers "neutral" return scores [0,0,0,0,0], binary "11110"
\* and archetype "Creative Expression".
C5_AllNeutral ==
    answers = AllNeutral =>
        /\ pc # "raised"
        /\ pc = "returned" =>
             result = [archetype |-> "Creative Expression",
                       binary |-> <<"1","1","1","1","0">>,
                       scores |-> <<0, 0, 0, 0, 0>>]

C5_Witness == pc = "returned" /\ answers = AllNeutral

\* C6: a dict with valid values that holds an identifier q<N> with N outside
\* 1..10 (its other identifiers canonical) ends in the index-out-of-range
\* error and returns no result.
C6_OutOfRangeRaises ==
    ( /\ answers.type = "dict"
      /\ \A k \in 1..Len(answers.items) :
           /\ answers.items[k][1] \in QIdSet \cup OutOfRangeIds
           /\ IsScaleSymbol(answers.items[k][2])
      /\ \E k \in 1..Len(answers.items) : answers.items[k][1] \in OutOfRangeIds
      /\ pc \in {"returned", "raised"} )
    => /\ pc = "raised"
       /\ raised.cls = "IndexError"
       /\ result = NoResult

HasInvalidValue(a) ==
    a.type = "dict" /\ \E k \in 1..Len(a.items) : ~IsScaleSymbol(a.items[k][2])

C8_InvalidValueAborts ==
    HasInvalidValue(answers) =>
        /\ pc \in {"start", "validate", "raised"}
        /\ result = NoResult
        /\ scores = <<>>
        /\ pc = "raised" =>
             /\ raised.cls = "ValueError"
             /\ raised.msg \in { InvalidAnswerError(PyNone, PyNone).msg,
                                 "Answer for {q_num} must be a string" }

C8_Witness ==
    /\ pc = "raised"
    /\ Len(answers.items) = 2
    /\ answers.items[1] = <<Str(<<"q","1","1">>), Str(agree)>>
    /\ answers.items[2][2] = PyInt7

\* The first entry, in iteration order, whose value is invalid.
FirstInvalid(a) ==
    CHOOSE k \in 1..Len(a.items) :
        /\ ~IsScaleSymbol(a.items[k][2])
        /\ \A j \in 1..(k - 1) : IsScaleSymbol(a.items[j][2])

C10_Deterministic ==
    /\ (pc \in {"returned", "raised"} /\ seen.answers = answers) =>
          /\ seen.pc = pc
          /\ seen.result = result
          /\ seen.raised = raised
    /\ (pc = "score" /\ i = 1) => scores = <<0, 0, 0, 0, 0>>

C10_Witness ==
    /\ pc = "returned"
    /\ ncalls = 3
    /\ seen.n = 1
    /\ seen.answers = answers
    /\ result.scores # <<0, 0, 0, 0, 0>>

\* C11: for every valid AnswerSet, a second call on the same entries in
\* another iteration order returns the same scores, binary code and
\* archetype.
IsReordering(a, b) ==
    /\ Len(a) = Len(b)
    /\ { a[k] : k \in 1..Len(a) } = { b[k] : k \in 1..Len(b) }

C11_OrderIndependent ==
    ( /\ pc = "returned"
      /\ ncalls = 2
      /\ IsAnswerSet(answers)
      /\ IsReordering(seen.answers.items, answers.items) )
    => /\ seen.pc = "returned"
       /\ seen.result = result

C11_Witness ==
    /\ pc = "returned"
    /\ ncalls = 2
    /\ IsAnswerSet(answers)
    /\ Len(answers.items) = 3
    /\ IsReordering(seen.answers.items, answers.items)
    /\ seen.answers.items[1] = answers.items[3]
    /\ seen.answers.items[2] = answers.items[1]
    /\ result.scores[1] # 0
    /\ result.scores[3] # 0

\* C12: a partial AnswerSet (fewer than 10 of q1..q10, the empty map
\* included) with valid values raises no error, and its scores are the sums
\* over all ten questions in which an unanswered question counts 0.
AnsweredValue(a, N) ==
    IF \E k \in 1..Len(a.items) : a.items[k][1] = QIds[N]
    THEN ScaleValue(a.items[CHOOSE k \in 1..Len(a.items) :
                              a.items[k][1] = QIds[N]][2])
    ELSE 0

RECURSIVE SumOverQuestions(_, _, _)
SumOverQuestions(a, c, N) ==
    IF N = 0 THEN 0
    ELSE AnsweredValue(a, N) * Coefficient(N, c) + SumOverQuestions(a, c, N - 1)

C12_PartialAccepted ==
    (IsAnswerSet(answers) /\ Len(answers.items) < 10) =>
        /\ pc # "raised"
        /\ pc = "returned" =>
             /\ \A c \in 1..5 :
                  result.scores[c] = SumOverQuestions(answers, c, 10)
             /\ Len(answers.items) = 0 => result.scores = <<0, 0, 0, 0, 0>>

C12_Witness ==
    /\ pc = "returned"
    /\ IsAnswerSet(answers)
    /\ Len(answers.items) = 2
    /\ result.scores[1] # 0
    /\ result.scores[2] # 0

\* C13: a second call on the same entries with answer values in another
\* letter case ends the same way (returns or raises) with the same result.
UpperCased(v) == IF v.type = "str" THEN Upper(v.s) ELSE v.s

SameUpToCase(a, b) ==
    /\ a.type = "dict"
    /\ b.type = "dict"
    /\ Len(a.items) = Len(b.items)
    /\ \A k \in 1..Len(a.items) :
         /\ a.items[k][1] = b.items[k][1]
         /\ a.items[k][2].type = b.items[k][2].type
         /\ UpperCased(a.items[k][2]) = UpperCased(b.items[k][2])

C13_CaseInsensitive ==
    ( /\ pc \in {"returned", "raised"}
      /\ ncalls = 2
      /\ SameUpToCase(seen.answers, answers) )
    => /\ seen.pc = pc
       /\ seen.result = result

C13_Witness ==
    /\ pc = "returned"
    /\ ncalls = 2
    /\ SameUpToCase(seen.answers, answers)
    /\ Len(answers.items) = 3
    /\ seen.answers.items[1][2] = Str(agree)
    /\ answers.items[1][2] = Str(<<"A","G","R","E","E">>)
    /\ answers.items[2][2] = Str(<<"S","t","r","o","n","g","l","y","_",
                                   "d","i","s","a","g","r","e","e">>)
    /\ result.scores[1] # 0

\* C14: every returned result has exactly the fields archetype, binary and
\* scores; binary is 5 characters '0' or '1' and scores is 5 integers, both
\* in the trait order self_esteem, introspection, public_image,
\* body_perception, social_anxiety.
self_esteem == 1
introspection == 2
public_image == 3
body_perception == 4
social_anxiety == 5

C14_ResultShape ==
    pc = "returned" =>
        /\ DOMAIN result = {"archetype", "binary", "scores"}
        /\ result.archetype \in
             { persona_map[code] : code \in DOMAIN persona_map } \cup {"Unknown"}
        /\ DOMAIN result.binary = 1..5
        /\ \A t \in 1..5 : result.binary[t] \in {"0", "1"}
        /\ DOMAIN result.scores = 1..5
        /\ \A t \in 1..5 : result.scores[t] \in Int
        /\ result.binary[self_esteem] = Bit(result.scores[self_esteem] >= 0)
        /\ result.binary[introspection] = Bit(result.scores[introspection] >= 0)
        /\ result.binary[body_perception] = Bit(result.scores[body_perception] >= 0)
        /\ result.binary[social_anxiety] = Bit(result.scores[social_anxiety] >= 1)
        /\ result.binary[public_image] =
             Bit(result.scores[public_image] >= 0
                 \/ result.scores[social_anxiety] >= 1)

C14_Witness ==
    /\ pc = "returned"
    /\ result.binary = <<"0", "1", "1", "0", "1">>
    /\ result.scores[introspection] >= 0
    /\ result.scores[self_esteem] < 0

\* C15: of two calls whose statements interleave in any way, the one on the
\* answers of an earlier call that ran alone ends as that call did, with the
\* same result or the same error.
EndsAsAlone(frame) ==
    (frame.pc \in {"returned", "raised"} /\ frame.answers = seen.answers) =>
        /\ frame.pc = seen.pc
        /\ frame.result = seen.result
        /\ frame.raised = seen.raised

C15_ConcurrentAsAlone ==
    ncalls = 2 => EndsAsAlone(RunningFrame) /\ EndsAsAlone(suspended)

C15_Witness ==
    /\ ncalls = 2
    /\ pc = "returned"
    /\ suspended.pc = "returned"
    /\ answers = seen.answers
    /\ suspended.answers # answers
    /\ Len(answers.items) = 2
    /\ suspended.result.scores # result.scores
    /\ result.scores # <<0, 0, 0, 0, 0>>
    /\ suspended.result.scores # <<0, 0, 0, 0, 0>>

\* C16: create_consultation calls the classifier only with an AnswerSet of
\* exactly the 10 identifiers q1..q10, and a request that misses one is
\* answered 422.
C16_ExactlyTenIds ==
    /\ handler.pc = "calling" =>
         /\ answers.type = "dict"
         /\ Len(answers.items) = 10
         /\ { answers.items[k][1] : k \in 1..Len(answers.items) } = QIdSet
    /\ response.message = "Missing required questions" => response.status = 422

\* C17: the stored consultation holds the classifier's result and the
\* submitted answers, the 201 response carries that result, and a GET
\* answered 200 returns that result and those answers.
C17_Stored ==
    /\ Len(created) = Len(db)
    /\ \A k \in 1..Len(db) :
         /\ db[k].id = k
         /\ json_loads_result(db[k].result_json) = created[k].result
         /\ json_loads_answers(db[k].answers_json) = created[k].answers
    /\ response.status = 201 =>
         /\ response.id = Len(db)
         /\ response.result = created[response.id].result
    /\ (request.op = "get_consultation" /\ response.status = 200) =>
         /\ response.id \in 1..Len(db)
         /\ response.result = created[response.id].result
         /\ response.answers = created[response.id].answers

C17_CommitStep ==
    (handler.pc = "calling" /\ pc = "returned") =>
        /\ response'.status = 201
        /\ response'.result = result
        /\ created' = Append(created, [answers |-> answers, result |-> result])

C17_PersistedVerbatim == []C17_Stored /\ [][C17_CommitStep]_vars

C17_Witness ==
    /\ response.status = 200
    /\ response.id = 2
    /\ Len(db) = 2
    /\ response.result.scores # <<0, 0, 0, 0, 0>>
    /\ response.result.archetype # ""
    /\ response.result = json_loads_result(db[2].result_json)
    /\ Len(response.answers.items) = 10

\* C18: in every AnswerSet the function accepts, no two distinct keys
\* resolve to the same matrix row.
RowOfKey(key) ==
    ListIndex(<<1, 2, 3, 4, 5, 6, 7, 8, 9, 10>>,
              int(SliceFrom1(key.s)).val - 1).val

C18_RowsAtMostOnce ==
    pc = "returned" =>
        \A a, b \in 1..Len(answers.items) :
            a # b => RowOfKey(answers.items[a][1]) # RowOfKey(answers.items[b][1])

\* C19: when the classifier raises inside create_consultation, the request
\* is answered with a client error (4xx) and nothing is stored.
C19_ClassifierErrorStep ==
    (handler.pc = "calling" /\ pc = "raised") =>
        /\ response'.status \in 400..499
        /\ db' = db

C19_ClassifierErrorIs4xx == [][C19_ClassifierErrorStep]_vars

\* C20 as stated: every raised error is of one of the three declared kinds,
\* mapping-type, invalid-answer or index-out-of-range.
InvalidAnswerMessages ==
    { "Answer for {q_num} must be a string",
      "Invalid answer '{answer}' for {q_num}. Must be one of: {valid_responses}" }

Position ==
    CASE pc = "start" -> 0
      [] pc = "validate" -> 1
      [] pc = "score" -> 2
      [] pc = "override" -> 3
      [] pc = "lookup" -> 4
      [] OTHER -> 5

EntryCount == IF answers.type = "dict" THEN Len(answers.items) ELSE 0

Progress == Position * (EntryCount + 2) + i

\* C20 (amended): every call ends (each statement run moves the call
\* forward through a bounded number of positions), with a complete result and no error or
\* with no result and one error: mapping-type, invalid-answer,
\* index-out-of-range, or an identifier error (the ValueError of int() for
\* an identifier that is no number, the TypeError of slicing a key that is
\* no string); nothing is retried, each entry is validated once and scored
\* at most once.
C20_Outcome ==
    /\ pc # "returned" => result = NoResult
    /\ pc # "raised" => raised = NoError
    /\ pc = "returned" =>
         /\ result.archetype # ""
         /\ Len(result.binary) = 5
         /\ Len(result.scores) = 5
    /\ pc = "raised" =>
         \/ raised.msg = "Answers must be a dictionary"
         \/ raised.msg \in InvalidAnswerMessages
         \/ raised.cls = "IndexError"
         \/ raised.cls = "ValueError"
              /\ raised.msg = "invalid literal for int() with base 10"
         \/ raised.cls = "TypeError" /\ raised.msg = "object is not subscriptable"

C20_Step ==
    /\ pc \in {"returned", "raised"} =>
         pc' = pc /\ result' = result /\ raised' = raised
    /\ (pc = "validate" /\ pc' = "validate") => i' = i + 1
    /\ (pc = "score" /\ pc' = "score") => i' = i + 1
    /\ pc' = "validate" => pc \in {"start", "validate"}
    /\ pc' = "score" => pc \in {"validate", "score"}
    /\ answers' = answers

C20_Bounded == Progress <= 6 * (EntryCount + 2)

InCall == pc \in {"start", "validate", "score", "override", "lookup"}

C21_FrameStep ==
    InCall =>
        /\ answers' = answers
        /\ env' = env
        /\ ncalls' = ncalls
        /\ answer_values' = answer_values
        /\ multiplier_matrix' = multiplier_matrix
        /\ persona_map' = persona_map

C21_InputUnchanged == [][C21_FrameStep]_vars

C21_Witness ==
    /\ pc = "returned"
    /\ ncalls = 2
    /\ seen.pc = "raised"
    /\ Len(answers.items) = 1
    /\ answers.items[1][2] = Str(<<"A","G","R","E","E">>)

\* C22: for every AnswerSet, complete or partial, whose identifiers are
\* among q1..q10 and whose values are valid, the returned binary code is one
\* of the 6 cataloged codes and the archetype is never "Unknown".
CatalogedCodes ==
    { <<"0","0","1","0","1">>, <<"0","1","1","0","1">>, <<"1","0","0","1","0">>,
      <<"1","0","1","1","0">>, <<"1","1","0","1","0">>, <<"1","1","1","1","0">> }

C22_AlwaysCataloged ==
    (pc = "returned" /\ IsAnswerSet(answers)) =>
        /\ result.binary \in CatalogedCodes
        /\ result.archetype # "Unknown"
        /\ result.archetype # ""

C22_Witness ==
    /\ pc = "returned"
    /\ IsAnswerSet(answers)
    /\ Len(answers.items) = 10
    /\ result.scores[3] < 0
    /\ result.binary = <<"0","0","1","0","1">>
    /\ result.archetype = "Refined Style"

\* C23: in every returned result scores[3] = scores[0] and
\* scores[4] = -scores[0] (0-based), so the body_perception bit equals the
\* self_esteem bit and the social_anxiety bit is its complement.
C23_LinkedTraits ==
    pc = "returned" =>
        /\ result.scores[body_perception] = result.scores[self_esteem]
        /\ result.scores[social_anxiety] = -result.scores[self_esteem]
        /\ result.binary[body_perception] = result.binary[self_esteem]
        /\ result.binary[social_anxiety] # result.binary[self_esteem]
        /\ result.binary[social_anxiety] \in {"0", "1"}

C23_Witness ==
    /\ pc = "returned"
    /\ result.scores[self_esteem] = 0
    /\ result.scores[introspection] # 0
    /\ result.binary[self_esteem] = "1"
    /\ result.binary[social_anxiety] = "0"

\* C24: every value is validated before any matrix row is looked up: a call
\* on a map with an invalid value ends with the invalid-answer error even
\* when an identifier is out of range or malformed, and an index or
\* identifier failure happens only when every value is valid.
IsBadIdentifier(key) ==
    \/ key.type # "str"
    \/ ~int(SliceFrom1(key.s)).ok
    \/ int(SliceFrom1(key.s)).val \notin 1..10

C24_ValidatedFirst ==
    /\ (pc \in {"score", "override", "lookup", "returned"}) =>
           ~HasInvalidValue(answers)
    /\ (pc = "raised" /\ HasInvalidValue(answers)) =>
           raised.msg \in InvalidAnswerMessages
    /\ (pc = "raised" /\ raised.cls \in {"IndexError", "TypeError"}) =>
           ~HasInvalidValue(answers)
    /\ (pc = "raised" /\ raised.msg = "invalid literal for int() with base 10") =>
           ~HasInvalidValue(answers)

C24_Witness ==
    /\ pc = "raised"
    /\ Len(answers.items) = 2
    /\ answers.items[1][1] = Str(<<"q","x">>)
    /\ IsScaleSymbol(answers.items[1][2])
    /\ IsBadIdentifier(answers.items[1][1])
    /\ ~IsScaleSymbol(answers.items[2][2])
    /\ raised.msg \in InvalidAnswerMessages
    /\ raised.key = answers.items[2][1]

\* C25 as stated: the scores of a valid AnswerSet over q1..q10 are within
\* 16, 8, 4, 16, 16 in absolute value, and some complete AnswerSet reaches
\* each of these bounds.
Abs(n) == IF n < 0 THEN -n ELSE n

\* The complete AnswerSets that answer every question with an end of the
\* scale.
Corner(S) ==
    [n \in 1..10 |->
       <<QIds[n], Str(IF n \in S THEN strongly_agree ELSE strongly_disagree)>>]

Reached(c, bound) ==
    \E S \in SUBSET (1..10) : Abs(WeightedSum(Corner(S), c)) = bound

C25_Sixteen ==
    /\ (pc = "returned" /\ IsAnswerSet(answers)) =>
          /\ Abs(result.scores[self_esteem]) <= 16
          /\ Abs(result.scores[introspection]) <= 8
          /\ Abs(result.scores[public_image]) <= 4
          /\ Abs(result.scores[body_perception]) <= 16
          /\ Abs(result.scores[social_anxiety]) <= 16
    /\ Reached(self_esteem, 16)
    /\ Reached(introspection, 8)
    /\ Reached(public_image, 4)
    /\ Reached(body_perception, 16)
    /\ Reached(social_anxiety, 16)

\* C25 (amended): the bounds are 14, 8, 4, 14, 14, and the complete
\* AnswerSet that strongly agrees with Q1, Q3, Q8, Q10 and strongly
\* disagrees with the six others reaches all five at once.
MostConfident == Dict(Corner({1, 3, 8, 10}))

C25_Fourteen ==
    /\ (pc = "returned" /\ IsAnswerSet(answers)) =>
          /\ Abs(result.scores[self_esteem]) <= 14
          /\ Abs(result.scores[introspection]) <= 8
          /\ Abs(result.scores[public_image]) <= 4
          /\ Abs(result.scores[body_perception]) <= 14
          /\ Abs(result.scores[social_anxiety]) <= 14
    /\ answers = MostConfident =>
          /\ pc # "raised"
          /\ pc = "returned" => result.scores = <<14, -8, -4, 14, -14>>

C25_Witness ==
    /\ pc = "returned"
    /\ answers = MostConfident
    /\ result.scores = <<14, -8, -4, 14, -14>>

\* C28: a consultation is returned only to the user who created it:
\* get_consultation answers 404 for a consultation of another user, and
\* get_consultations lists the consultations of the requesting user only.
RowsWithId(id) == { k \in 1..Len(db) : db[k].id = id }

C28_OwnerOnly ==
    /\ \A k \in 1..Len(db) : Cardinality(RowsWithId(db[k].id)) = 1
    /\ request.op = "get_consultation" =>
         /\ (\E k \in RowsWithId(request.id) : db[k].user_id # request.user) =>
               response.status = 404 /\ response.result = NoResult
         /\ response.status = 200 =>
               /\ response.id = request.id
               /\ \E k \in RowsWithId(request.id) :
                     /\ db[k].user_id = request.user
                     /\ response.result = created[k].result
                     /\ response.answers = created[k].answers
    /\ request.op = "get_consultations" =>
         /\ response.status = 200
         /\ \A e \in 1..Len(payload.list) :
               \E k \in RowsWithId(payload.list[e].id) :
                   /\ db[k].user_id = request.user
                   /\ payload.list[e].result = created[k].result
                   /\ payload.list[e].answers = created[k].answers
         /\ Len(payload.list)
              = Cardinality({ k \in 1..Len(db) : db[k].user_id = request.user })

C28_Witness ==
    /\ request.op = "get_consultation"
    /\ response.status = 404
    /\ Len(db) = 2
    /\ db[1].user_id # db[2].user_id
    /\ \E k \in RowsWithId(request.id) : db[k].user_id # request.user

\* C27: at most one Feedback record exists for a consultation; the first
\* successful call creates it, every later one updates is_satisfied,
\* has_purchased and notes of that same record, and the record holds the
\* values of the last successful call.
FeedbackFor(table, consultation_id) ==
    { k \in 1..Len(table) : table[k].consultation_id = consultation_id }

C27_AtMostOne ==
    /\ \A j, k \in 1..Len(feedback) :
         feedback[j].consultation_id = feedback[k].consultation_id => j = k
    /\ (request.op = "create_or_update_feedback" /\ response.status = 200) =>
         \E k \in FeedbackFor(feedback, request.id) :
             /\ feedback[k].is_satisfied = request.body.is_satisfied
             /\ feedback[k].has_purchased = request.body.has_purchased
             /\ feedback[k].notes = request.body.notes
             /\ payload.feedback = feedback[k]

C27_FeedbackStep ==
    (handler.pc = "idle" /\ request'.op = "create_or_update_feedback") =>
        LET before == FeedbackFor(feedback, request'.id)
        IN  /\ response'.status \in {200, 400, 500}
            /\ response'.status # 200 => feedback' = feedback
            /\ (response'.status = 200 /\ before = {}) =>
                  /\ Len(feedback') = Len(feedback) + 1
                  /\ SubSeq(feedback', 1, Len(feedback)) = feedback
                  /\ feedback'[Len(feedback')].user_id = request'.user
            /\ (response'.status = 200 /\ before # {}) =>
                  /\ Len(feedback') = Len(feedback)
                  /\ \A k \in 1..Len(feedback) :
                        /\ feedback'[k].id = feedback[k].id
                        /\ feedback'[k].consultation_id = feedback[k].consultation_id
                        /\ feedback'[k].user_id = feedback[k].user_id
                        /\ k \notin before => feedback'[k] = feedback[k]

C27_OneFeedback == []C27_AtMostOne /\ [][C27_FeedbackStep]_vars

C27_Witness ==
    /\ request.op = "create_or_update_feedback"
    /\ response.status = 500
    /\ request.body.is_satisfied = "null"
    /\ Len(feedback) = 2
    /\ request.id = 1
    /\ \E k \in FeedbackFor(feedback, 1) :
          /\ feedback[k].user_id # request.user
          /\ feedback[k].is_satisfied = "false"
          /\ feedback[k].notes = ""

\* C26: a successful /login/token replaces the presented remember token by
\* a newly generated one, so a remember token is accepted at most once:
\* presenting it again is answered 401 and issues no access token.
C26_TokenStep ==
    (request'.op = "login_with_token" /\ now' = now) =>
        LET presented == request'.body.remember_token
        IN  /\ (presented \in accepted /\ request'.body.email # "") =>
                  /\ response'.status = 401
                  /\ payload'.access_token = 0
                  /\ payload'.remember_token = 0
                  /\ users' = users
            /\ response'.status = 200 =>
                  /\ presented \notin accepted
                  /\ accepted' = accepted \cup {presented}
                  /\ payload'.remember_token # presented
                  /\ payload'.remember_token > ntokens
                  /\ \E k \in 1..Len(users) :
                        /\ users[k].remember_token = presented
                        /\ users[k].email = request'.body.email
                        /\ users'[k].remember_token = payload'.remember_token
                        /\ payload'.access_token = users[k].id
                  /\ \A k \in 1..Len(users') :
                        users'[k].remember_token # presented
            /\ response'.status # 200 =>
                  payload'.access_token = 0 /\ accepted' = accepted

C26_NoneCurrent ==
    \A k \in 1..Len(users) : users[k].remember_token \notin accepted

C26_AcceptedOnce == []C26_NoneCurrent /\ [][C26_TokenStep]_vars

C26_Witness ==
    /\ request.op = "login_with_token"
    /\ request.body.remember_token \in accepted
    /\ request.body.email # ""
    /\ response.status = 401
    /\ \E k \in 1..Len(users) :
          /\ users[k].email = request.body.email
          /\ users[k].remember_token # 0

====
